---- MODULE Spec2Model ----
(***************************************************************************)
(* Jules MCP server: the durable schedule store (ScheduleStorage), the     *)
(* cron engine (CronEngine), the retry helper and the schedule tools       *)
(* (JulesTools), as a state machine.  Every async function is cut at its   *)
(* awaits; the code between two awaits is one atomic step.                 *)
(***************************************************************************)
EXTENDS Integers, FiniteSets, Sequences, TLC

\* ------------------------------------------------------------------ bounds
\* Number of callbacks / tool calls that are started in one run
\* (process 0 is the server's start()).
MaxProcs == 2

\* ------------------------------------------------------- program constants
maxRetries == 3
baseDelay == 2000

\* --------------------------------------------------------------- the data
\* Cron expressions that pass the tool schema's character check.  node-schedule
\* parses the first two and rejects the last one.
GoodCrons == {"0 9 * * 1", "*/5 * * * *"}
BadCron == "61 25 * * *"
Crons == GoodCrons \cup {BadCron}
ToolCrons == {"0 9 * * 1", BadCron}
Names == {"X", "Z"}

cronParses(expression) == expression \in GoodCrons

\* RepositoryValidator.allowedRepos when JULES_ALLOWED_REPOS is "o/r".
allowedRepos == {"o/r"}
\* The sources a caller passes or a stored task carries: a listed repository,
\* one that is not listed, and a string that is not of the form
\* sources/github/owner/repo.
Sources == {"sources/github/o/r", "sources/github/x/y", "o/r"}
\* source.match(/^sources\/github\/(.+)$/): the captured path, "" for no match.
repoPath(source) ==
  CASE source = "sources/github/o/r" -> "o/r"
    [] source = "sources/github/x/y" -> "x/y"
    [] OTHER -> ""
\* validateRepository(source): TRUE when it returns, FALSE when it throws.
validateRepository(source) == repoPath(source) # "" /\ repoPath(source) \in allowedRepos

\* ScheduledTask; 0 stands for a lastRun / lastSessionId without a value, ""
\* for a timezone without a value.  undef names the optional properties the
\* object has with the value undefined (the others without a value are not
\* properties of the object at all).
ScheduledTask(id, name, cron, timezone, createdAt, enabled) ==
  [id |-> id, name |-> name, cron |-> cron, source |-> "sources/github/o/r",
   timezone |-> timezone, createdAt |-> createdAt, lastRun |-> 0,
   lastSessionId |-> 0, enabled |-> enabled, undef |-> {}]

NoTask == ScheduledTask(0, "", "", "", 0, FALSE)
TaskA == ScheduledTask(1, "X", "0 9 * * 1", "", 0, TRUE)
TaskB == ScheduledTask(2, "Y", "*/5 * * * *", "America/New_York", 0, FALSE)
TaskC == ScheduledTask(3, "W", BadCron, "", 0, TRUE)

\* ScheduleStore.schedules: a map from task id to ScheduledTask.
EmptyDoc == [i \in {} |-> NoTask]
DocOf(tasks) == [i \in {t.id : t \in tasks} |-> CHOOSE t \in tasks : t.id = i]
\* An upsert that inserts but does not replace.
Put_insertOnly(doc, task) ==
  [i \in DOMAIN doc \cup {task.id} |-> IF i \in DOMAIN doc THEN doc[i] ELSE task]

Put(doc, task) == [i \in DOMAIN doc \cup {task.id} |-> IF i = task.id THEN task ELSE doc[i]]
Remove(doc, id) == [i \in DOMAIN doc \ {id} |-> doc[i]]

\* JSON.stringify(store): the text of the document.  A property whose value
\* is undefined is left out of the text; every other property is written.  A
\* text is represented by the document JSON.parse makes of it.
stringify(doc) == [i \in DOMAIN doc |-> [doc[i] EXCEPT !.undef = {}]]

\* The backing file: absent, or a text.  form tells what the text is: the
\* JSON text of a document ("document"), a text JSON.parse rejects
\* ("malformed", such as the leading part of a longer text), or JSON that is
\* not a {version, schedules} object ("other", such as []).
\* A parsed value that has no schedules map is represented by the map whose only
\* key is 0, which is no task id.
OtherJson == [i \in {0} |-> NoTask]
NoFile == [exists |-> FALSE, doc |-> EmptyDoc, form |-> "none"]
FileOf(doc) ==
  [exists |-> TRUE, doc |-> doc, form |-> IF doc = OtherJson THEN "other" ELSE "document"]
Malformed == [exists |-> TRUE, doc |-> EmptyDoc, form |-> "malformed"]

VARIABLES
  file,     \* ~/.jules-mcp/schedules.json
  cache,    \* ScheduleStorage.cache: 0 (null) or a reference into heap
  heap,     \* the ScheduleStore objects alive in the process, by reference
  jobs,     \* CronEngine.jobs: task id -> Job
  timers,   \* node-schedule's armed Jobs: Job -> [cron, tz, task]
  procs,    \* the units of concurrent work and their positions
  clock,    \* the wall clock read by new Date()
  phase,    \* "boot" | "running" | "down" (shutdown() called) | "exited"
  ret       \* the value returned by the last direct engine call

vars == <<file, cache, heap, jobs, timers, procs, clock, phase, ret>>

NoRet == [op |-> "none", arg |-> NoTask, val |-> "", prev |-> ""]

Pids == 0..MaxProcs
NoProc ==
  [kind |-> "none", pc |-> "idle", k |-> "", store |-> 0, data |-> EmptyDoc,
   task |-> NoTask, ts |-> 0, attempt |-> 0, calls |-> 0, sid |-> 0,
   threw |-> FALSE, caught |-> FALSE, waits |-> <<>>, result |-> "", success |-> ""]

\* ------------------------------------------------------------ node-schedule
\* schedule.scheduleJob(spec, callback): a new armed Job, or null (0) when the
\* spec does not parse.  The engine passes the cron string alone, so the Job
\* runs in process-local time (tz "").
NewJob(tm) == CHOOSE j \in 1..(Cardinality(DOMAIN tm) + 1) : j \notin DOMAIN tm

scheduleJob(tm, cron, task) ==
  IF cronParses(cron)
  THEN LET j == NewJob(tm)
       IN [job |-> j,
           timers |-> [x \in DOMAIN tm \cup {j} |->
                         IF x = j THEN [cron |-> cron, tz |-> "", task |-> task]
                         ELSE tm[x]]]
  ELSE [job |-> 0, timers |-> tm]

\* Job.cancel()
cancelJob(tm, j) == [x \in DOMAIN tm \ {j} |-> tm[x]]

NoJobs == [i \in {} |-> 0]
NoTimers == [j \in {} |-> [cron |-> "", tz |-> "", task |-> NoTask]]

\* --------------------------------------------------------------- CronEngine
\* The task object a job callback closes over; the callback never reads the
\* last-run fields.
Closure(task) == [task EXCEPT !.lastRun = 0, !.lastSessionId = 0]

\* validateCronExpression without the cancel of the trial job.
validateCronExpression_leak(tm, expression) ==
  LET s == scheduleJob(tm, expression, NoTask)
  IN [ok |-> s.job # 0, timers |-> s.timers]

validateCronExpression(tm, expression) ==
  LET s == scheduleJob(tm, expression, NoTask)
  IN IF s.job = 0
     THEN [ok |-> FALSE, timers |-> s.timers]
     ELSE [ok |-> TRUE, timers |-> cancelJob(s.timers, s.job)]

\* A cancelTask that cancels every job of the engine.
cancelTask_all(js, tm, taskId) ==
  IF taskId \in DOMAIN js
  THEN [jobs |-> [i \in {} |-> 0],
        timers |-> [x \in DOMAIN tm \ {js[i] : i \in DOMAIN js} |-> tm[x]]]
  ELSE [jobs |-> js, timers |-> tm]

cancelTask(js, tm, taskId) ==
  IF taskId \in DOMAIN js
  THEN [jobs |-> [i \in DOMAIN js \ {taskId} |-> js[i]],
        timers |-> cancelJob(tm, js[taskId])]
  ELSE [jobs |-> js, timers |-> tm]

\* scheduleTask without the cancelTask call at its start.
scheduleTask_noCancel(js, tm, task) ==
  LET s == scheduleJob(tm, task.cron, Closure(task))
  IN IF s.job = 0
     THEN [jobs |-> js, timers |-> tm, threw |-> TRUE]
     ELSE [jobs |-> [i \in DOMAIN js \cup {task.id} |->
                       IF i = task.id THEN s.job ELSE js[i]],
           timers |-> s.timers, threw |-> FALSE]

scheduleTask(js, tm, task) ==
  LET c == cancelTask(js, tm, task.id)
      s == scheduleJob(c.timers, task.cron, Closure(task))
  IN IF s.job = 0
     THEN [jobs |-> c.jobs, timers |-> c.timers, threw |-> TRUE]
     ELSE [jobs |-> [i \in DOMAIN c.jobs \cup {task.id} |->
                       IF i = task.id THEN s.job ELSE c.jobs[i]],
           timers |-> s.timers, threw |-> FALSE]

rescheduleTask(js, tm, task) ==
  LET c == cancelTask(js, tm, task.id)
  IN scheduleTask(c.jobs, c.timers, task)

\* "next" stands for the Date of the next matching instant, "null" for null.
getNextInvocation(js, tm, taskId) ==
  IF taskId \notin DOMAIN js THEN "null"
  ELSE IF js[taskId] \in DOMAIN tm THEN "next" ELSE "null"

\* ---------------------------------------------------------- ScheduleStorage
\* Objects no local variable and no field refers to are dropped.
Live(h, c, ps) ==
  [o \in {x \in DOMAIN h : x = c \/ \E p \in DOMAIN ps : ps[p].store = x} |-> h[o]]

\* executeWithErrorHandling(operation, successTransform): the success property
\* of the JSON text it returns.  A throwing operation gives {success: false,
\* error}; a result is spread after success: true when a successTransform is
\* passed, and is written as it is otherwise, and no result has a success
\* property of its own.
executeWithErrorHandling(threw, successTransform) ==
  IF threw THEN "false" ELSE IF successTransform THEN "true" ELSE "absent"

\* The success property of the text a tool returns for an outcome: every tool
\* calls executeWithErrorHandling with the operation alone.  "" for an outcome
\* that is not a tool's.
successOf(result) ==
  IF result \in {"success", "error"}
  THEN executeWithErrorHandling(result = "error", FALSE)
  ELSE ""

\* A finished unit of work keeps what it reports (its outcome and the task it
\* was about) and drops its locals.
Finish(pr, result) ==
  [NoProc EXCEPT !.kind = pr.kind, !.pc = "done", !.result = result,
                 !.success = successOf(result),
                 !.task = [NoTask EXCEPT !.id = pr.task.id, !.name = pr.task.name,
                                         !.cron = pr.task.cron]]

\* The caller of a load() that throws, or whose result has no schedules map so
\* that the caller's use of store.schedules throws a TypeError.  k tells the
\* caller: initialize() rejects and start() logs it ("failed"); a tool's
\* executeWithErrorHandling answers with the error; the resource handler throws
\* "Failed to read resource"; a direct call rejects.  In
\* the job callback a throw in the try block enters the catch block, which
\* calls updateLastRun(id, timestamp, undefined); a throw there rejects the
\* callback's promise.  cached: the next load() would return the cache.
loadThrows(pr, k, cached) ==
  IF k = "arm" THEN Finish(pr, "failed")
  ELSE IF k = "read_res" THEN Finish(pr, "thrown")
  ELSE IF k # "ulr" THEN Finish(pr, "error")
  ELSE IF pr.threw \/ pr.caught \/ cached THEN Finish(pr, "rejected")
  ELSE [pr EXCEPT !.pc = "load_dir", !.k = k, !.store = 0, !.sid = 0, !.caught = TRUE]

\* Every caller of load() but a direct call (which returns the value, or hands
\* it to save) reads store.schedules of the result in the same step.
Derefs(k) == k \notin {"ret_load", "save_loaded"}

\* load() that reads the backing file also while a cache is present.
load_reread(p, k) == [procs[p] EXCEPT !.pc = "load_dir", !.k = k, !.store = 0]

\* load() up to its first await, called by process p with continuation k:
\* the cached object is returned at once; otherwise the call waits for
\* ensureStorageDir().
load(p, k) ==
  IF cache = 0
  THEN [procs[p] EXCEPT !.pc = "load_dir", !.k = k, !.store = 0]
  ELSE IF heap[cache] = OtherJson /\ Derefs(k)
  THEN loadThrows(procs[p], k, TRUE)
  ELSE [procs[p] EXCEPT !.pc = k, !.store = cache]

\* save(store) up to its first await (ensureStorageDir), with continuation k.
save(pr, k) == [pr EXCEPT !.pc = "save_dir", !.k = k]

\* The caller of a save() that throws "Failed to save schedules".  The cache is
\* not assigned.  In the job callback a throw in the try block enters the
\* catch block, which calls updateLastRun(id, timestamp, undefined) and so
\* load() again; a throw in the catch block rejects the callback's promise.
\* A load() that was saving the empty store throws to its caller.  A store
\* method called by a tool rejects and executeWithErrorHandling answers with
\* the error.
saveThrows(pr) ==
  IF pr.kind = "firing"
  THEN IF pr.threw \/ pr.caught THEN Finish(pr, "rejected")
       ELSE IF cache = 0
       THEN [pr EXCEPT !.pc = "load_dir", !.k = "ulr", !.store = 0, !.sid = 0,
                       !.caught = TRUE, !.data = EmptyDoc]
       ELSE [pr EXCEPT !.pc = "ulr", !.store = cache, !.sid = 0, !.caught = TRUE,
                       !.data = EmptyDoc]
  ELSE IF pr.k # "end" THEN loadThrows(pr, pr.k, FALSE)
  ELSE Finish(pr, "error")

\* updateLastRun that saves the store also when the task is not in it.
updateLastRun_alwaysSave(doc, id, timestamp, sessionId) ==
  IF id \in DOMAIN doc
  THEN [found |-> TRUE,
        doc |-> [doc EXCEPT ![id].lastRun = timestamp, ![id].lastSessionId = sessionId,
                            ![id].undef = IF sessionId = 0 THEN @ \cup {"lastSessionId"}
                                          ELSE @ \ {"lastSessionId"}]]
  ELSE [found |-> TRUE, doc |-> doc]

\* updateLastRun that keeps the stored session id when none is passed.
updateLastRun_keepSession(doc, id, timestamp, sessionId) ==
  IF id \in DOMAIN doc
  THEN [found |-> TRUE,
        doc |-> [doc EXCEPT ![id].lastRun = timestamp,
                            ![id].lastSessionId = IF sessionId = 0 THEN @ ELSE sessionId]]
  ELSE [found |-> FALSE, doc |-> doc]

\* updateLastRun that also stamps createdAt.
updateLastRun_touch(doc, id, timestamp, sessionId) ==
  IF id \in DOMAIN doc
  THEN [found |-> TRUE,
        doc |-> [i \in DOMAIN doc |->
                   IF i = id
                   THEN [doc[i] EXCEPT !.lastRun = timestamp, !.lastSessionId = sessionId,
                                       !.createdAt = timestamp,
                                       !.undef = IF sessionId = 0 THEN @ \cup {"lastSessionId"}
                                                 ELSE @ \ {"lastSessionId"}]
                   ELSE doc[i]]]
  ELSE [found |-> FALSE, doc |-> doc]

\* updateLastRun(id, timestamp, sessionId) after its load(): the lookup and
\* the assignment of the two last-run fields.  An undefined sessionId makes
\* lastSessionId a property with the value undefined.
updateLastRun(doc, id, timestamp, sessionId) ==
  IF id \in DOMAIN doc
  THEN [found |-> TRUE,
        doc |-> [doc EXCEPT ![id].lastRun = timestamp, ![id].lastSessionId = sessionId,
                            ![id].undef = IF sessionId = 0 THEN @ \cup {"lastSessionId"}
                                          ELSE @ \ {"lastSessionId"}]]
  ELSE [found |-> FALSE, doc |-> doc]

\* getTaskByName that looks at the oldest task only.
getTaskByName_oldest(doc, name) ==
  {i \in DOMAIN doc : doc[i].name = name /\ \A j \in DOMAIN doc : i <= j}

\* getTaskByName(name) after its load(): the matching tasks (find returns one).
getTaskByName(doc, name) == {i \in DOMAIN doc : doc[i].name = name}

\* ------------------------------------------------------------------- steps
Commit(np, nc, nh) ==
  /\ procs' = np
  /\ cache' = nc
  /\ heap' = Live(nh, nc, np)

Free == {p \in 1..MaxProcs : procs[p].kind = "none"}
NewPid == CHOOSE p \in Free : \A q \in Free : p <= q
Running == phase = "running"
Alive == phase # "exited"

\* A ScheduleStore object created by process p (p creates at most one: once
\* its load() has returned, the cache is never null again).
NewObj(p) == p + 1
WithObj(h, o, doc) == [x \in DOMAIN h \cup {o} |-> IF x = o THEN doc ELSE h[x]]

\* load() that returns the empty store without saving it.
LoadDir_noSave(p) ==
  /\ Alive /\ procs[p].pc = "load_dir"
  /\ IF ~file.exists
     THEN Commit([procs EXCEPT ![p].pc = procs[p].k, ![p].store = NewObj(p)],
                 cache, WithObj(heap, NewObj(p), EmptyDoc))
     ELSE Commit([procs EXCEPT ![p].pc = "load_read"], cache, heap)
  /\ UNCHANGED <<file, jobs, timers, clock, phase, ret>>

\* load() after ensureStorageDir(): without a backing file the empty store is
\* created and saved; otherwise readFile starts.
LoadDir(p) ==
  /\ Alive /\ procs[p].pc = "load_dir"
  /\ IF ~file.exists
     THEN Commit([procs EXCEPT ![p] = [save(@, procs[p].k) EXCEPT !.store = NewObj(p)]],
                 cache, WithObj(heap, NewObj(p), EmptyDoc))
     ELSE Commit([procs EXCEPT ![p].pc = "load_read"], cache, heap)
  /\ UNCHANGED <<file, jobs, timers, clock, phase, ret>>

\* load(): readFile has returned.  JSON.parse throws on a malformed text and
\* load() throws "Failed to load schedules"; any other text is parsed, and the
\* value is cached and returned without a look at its shape.
LoadRead(p) ==
  /\ Alive /\ procs[p].pc = "load_read"
  /\ IF file.form = "malformed"
     THEN Commit([procs EXCEPT ![p] = loadThrows(procs[p], procs[p].k, FALSE)], cache, heap)
     ELSE IF file.form = "other" /\ Derefs(procs[p].k)
     THEN Commit([procs EXCEPT ![p] = loadThrows(procs[p], procs[p].k, TRUE)],
                 NewObj(p), WithObj(heap, NewObj(p), file.doc))
     ELSE Commit([procs EXCEPT ![p].pc = procs[p].k, ![p].store = NewObj(p)],
                 NewObj(p), WithObj(heap, NewObj(p), file.doc))
  /\ UNCHANGED <<file, jobs, timers, clock, phase, ret>>

\* save() after ensureStorageDir(): JSON.stringify(store), writeFile starts.
SaveDir(p) ==
  /\ Alive /\ procs[p].pc = "save_dir"
  /\ Commit([procs EXCEPT ![p].pc = "save_write", ![p].data = stringify(heap[procs[p].store])],
            cache, heap)
  /\ UNCHANGED <<file, jobs, timers, clock, phase, ret>>

\* scheduleRecurringTask after upsertTask: arm the task, answer the caller.
armAndAnswer(pr) ==
  LET s == scheduleTask(jobs, timers, pr.task)
  IN [jobs |-> s.jobs, timers |-> s.timers,
      proc |-> Finish(pr, IF s.threw THEN "error" ELSE "success")]

\* A save that keeps the tasks of the file that the saved store does not have.
SaveWrite_merge(p) ==
  /\ Alive /\ procs[p].pc = "save_write"
  /\ file' = FileOf([i \in DOMAIN file.doc \cup DOMAIN procs[p].data |->
                       IF i \in DOMAIN procs[p].data THEN procs[p].data[i] ELSE file.doc[i]])
  /\ LET pr == procs[p]
     IN IF pr.k # "end"
        THEN /\ Commit([procs EXCEPT ![p] = [pr EXCEPT !.pc = pr.k, !.data = EmptyDoc]],
                       pr.store, heap)
             /\ UNCHANGED <<jobs, timers>>
        ELSE IF pr.kind = "schedule"
        THEN LET a == armAndAnswer(pr)
             IN /\ Commit([procs EXCEPT ![p] = a.proc], pr.store, heap)
                /\ jobs' = a.jobs
                /\ timers' = a.timers
        ELSE /\ Commit([procs EXCEPT ![p] = Finish(pr, IF pr.kind = "firing" THEN "recorded" ELSE "success")],
                       pr.store, heap)
             /\ UNCHANGED <<jobs, timers>>
  /\ UNCHANGED <<clock, phase, ret>>

\* save(): writeFile has returned; the cache is set to the saved object and the
\* callers return, up to the next await or the end of the unit of work.
SaveWrite(p) ==
  /\ Alive /\ procs[p].pc = "save_write"
  /\ file' = FileOf(procs[p].data)
  /\ LET pr == procs[p]
     IN IF pr.k # "end"
        THEN /\ Commit([procs EXCEPT ![p] = [pr EXCEPT !.pc = pr.k, !.data = EmptyDoc]],
                       pr.store, heap)
             /\ UNCHANGED <<jobs, timers>>
        ELSE IF pr.kind = "schedule"
        THEN LET a == armAndAnswer(pr)
             IN /\ Commit([procs EXCEPT ![p] = a.proc], pr.store, heap)
                /\ jobs' = a.jobs
                /\ timers' = a.timers
        ELSE /\ Commit([procs EXCEPT ![p] = Finish(pr, IF pr.kind = "firing" THEN "recorded" ELSE "success")],
                       pr.store, heap)
             /\ UNCHANGED <<jobs, timers>>
  /\ UNCHANGED <<clock, phase, ret>>

\* ----------------------------------------------------- the job callback
\* The id of the session the remote service creates for this call.
SessionId(p, attempt) == maxRetries * p + attempt + 1

\* A timer whose callback is not started while another callback is in flight.
Fire_serial(j) ==
  /\ Running /\ j \in DOMAIN timers /\ timers[j].task # NoTask /\ Free # {}
  /\ \A q \in Pids : ~(procs[q].kind = "firing" /\ procs[q].pc # "done")
  /\ clock' = clock + 1
  /\ Commit([procs EXCEPT ![NewPid] =
               [NoProc EXCEPT !.kind = "firing", !.pc = "remote", !.task = timers[j].task,
                              !.ts = clock + 1, !.calls = 1]],
            cache, heap)
  /\ UNCHANGED <<file, jobs, timers, phase, ret>>

\* A timer reaches a matching instant: the callback captures the timestamp and
\* enters retryWithBackoff, whose first createSession call is sent.
Fire(j) ==
  /\ Running /\ j \in DOMAIN timers /\ timers[j].task # NoTask /\ Free # {}
  /\ clock' = clock + 1
  /\ Commit([procs EXCEPT ![NewPid] =
               [NoProc EXCEPT !.kind = "firing", !.pc = "remote", !.task = timers[j].task,
                              !.ts = clock + 1, !.calls = 1]],
            cache, heap)
  /\ UNCHANGED <<file, jobs, timers, phase, ret>>

\* retryWithBackoff: fn() resolved; the callback calls updateLastRun with the
\* session id.
RemoteOk(p) ==
  /\ Alive /\ procs[p].pc = "remote"
  /\ Commit([procs EXCEPT ![p] = [load(p, "ulr") EXCEPT !.sid = SessionId(p, procs[p].attempt)]],
            cache, heap)
  /\ UNCHANGED <<file, jobs, timers, clock, phase, ret>>

\* A delay that does not grow.
backoffDelay_flat(attempt) == baseDelay

\* retryWithBackoff: the delay in ms of setTimeout after the failure of attempt
\* number attempt (from 0).
backoffDelay(attempt) == baseDelay * 2^attempt

\* A callback that cancels its task's job once the retries are exhausted.
RemoteFail_disarm(p) ==
  /\ Alive /\ procs[p].pc = "remote"
  /\ IF procs[p].attempt < maxRetries - 1
     THEN /\ Commit([procs EXCEPT ![p].pc = "backoff",
                                  ![p].waits = Append(@, backoffDelay(procs[p].attempt))],
                    cache, heap)
          /\ UNCHANGED <<jobs, timers>>
     ELSE /\ Commit([procs EXCEPT ![p] = [load(p, "ulr") EXCEPT !.attempt = @ + 1, !.threw = TRUE]],
                    cache, heap)
          /\ jobs' = cancelTask(jobs, timers, procs[p].task.id).jobs
          /\ timers' = cancelTask(jobs, timers, procs[p].task.id).timers
  /\ UNCHANGED <<file, clock, phase, ret>>

\* retryWithBackoff: fn() rejected; start the delay before the next attempt
\* (waits lists the delays of this firing's setTimeout calls), or, after the
\* last one, throw to the callback, which calls updateLastRun without a
\* session id.
RemoteFail(p) ==
  /\ Alive /\ procs[p].pc = "remote"
  /\ IF procs[p].attempt < maxRetries - 1
     THEN Commit([procs EXCEPT ![p].pc = "backoff",
                               ![p].waits = Append(@, backoffDelay(procs[p].attempt))],
                 cache, heap)
     ELSE Commit([procs EXCEPT ![p] = [load(p, "ulr") EXCEPT !.attempt = @ + 1, !.threw = TRUE]],
                 cache, heap)
  /\ UNCHANGED <<file, jobs, timers, clock, phase, ret>>

\* retryWithBackoff: the delay has passed; the next attempt is sent.
Backoff(p) ==
  /\ Alive /\ procs[p].pc = "backoff"
  /\ Commit([procs EXCEPT ![p].pc = "remote", ![p].attempt = @ + 1, ![p].calls = @ + 1],
            cache, heap)
  /\ UNCHANGED <<file, jobs, timers, clock, phase, ret>>

\* The callback passing the time of the write instead of the fire timestamp.
UpdateLastRun_now(p) ==
  /\ Alive /\ procs[p].pc = "ulr"
  /\ LET pr == procs[p]
         u == updateLastRun(heap[pr.store], pr.task.id, clock, pr.sid)
     IN IF u.found
        THEN Commit([procs EXCEPT ![p] = save(pr, "end")], cache,
                    [heap EXCEPT ![pr.store] = u.doc])
        ELSE Commit([procs EXCEPT ![p] = Finish(pr, "absent")], cache, heap)
  /\ UNCHANGED <<file, jobs, timers, clock, phase, ret>>

\* updateLastRun after its load(): set the fields and save, or return when the
\* task is not in the store.
UpdateLastRun(p) ==
  /\ Alive /\ procs[p].pc = "ulr"
  /\ LET pr == procs[p]
         u == updateLastRun(heap[pr.store], pr.task.id, pr.ts, pr.sid)
     IN IF u.found
        THEN Commit([procs EXCEPT ![p] = save(pr, "end")], cache,
                    [heap EXCEPT ![pr.store] = u.doc])
        ELSE Commit([procs EXCEPT ![p] = Finish(pr, "absent")], cache, heap)
  /\ UNCHANGED <<file, jobs, timers, clock, phase, ret>>

\* ---------------------------------------------------------------- JulesTools
\* schedule_recurring_task arrives: the cron expression is validated and
\* getTaskByName is called.
ScheduleRecurringTask(name, cron) ==
  /\ Running /\ Free # {}
  /\ clock' = clock + 1
  /\ LET p == NewPid
         v == validateCronExpression(timers, cron)
         pr == [NoProc EXCEPT !.kind = "schedule",
                              !.task = ScheduledTask(0, name, cron, "", 0, TRUE)]
     IN /\ timers' = v.timers
        /\ IF v.ok
           THEN Commit([procs EXCEPT ![p] = [load(p, "name_check") EXCEPT
                                               !.kind = pr.kind, !.task = pr.task]],
                       cache, heap)
           ELSE Commit([procs EXCEPT ![p] = Finish(pr, "error")], cache, heap)
  /\ UNCHANGED <<file, jobs, phase, ret>>

\* The fresh identifier randomUUID() gives the task created by process p.
randomUUID(p) == 3 + p

\* scheduleRecurringTask without the test of the name.
nameCheck_skip(pr, doc, id, now) ==
  IF ~validateRepository(pr.task.source)
  THEN [pass |-> FALSE, proc |-> Finish(pr, "error")]
  ELSE
  [pass |-> TRUE,
   proc |-> [pr EXCEPT !.task = [pr.task EXCEPT !.id = id, !.createdAt = now,
                                                !.undef = {"timezone"}]]]

\* scheduleRecurringTask after getTaskByName: reject a name in use and a
\* source that is not allowed, else build the task and call upsertTask.
nameCheck(pr, doc, id, now) ==
  IF getTaskByName(doc, pr.task.name) # {} \/ ~validateRepository(pr.task.source)
  THEN [pass |-> FALSE, proc |-> Finish(pr, "error")]
  ELSE [pass |-> TRUE,
        proc |-> [pr EXCEPT !.task = [pr.task EXCEPT !.id = id, !.createdAt = now,
                                                     !.undef = {"timezone"}]]]

NameCheck(p) ==
  /\ Alive /\ procs[p].pc = "name_check" /\ procs[p].kind = "schedule"
  /\ LET c == nameCheck(procs[p], heap[procs[p].store], randomUUID(p), clock)
     IN IF c.pass
        THEN Commit([procs EXCEPT ![p] = [load(p, "upsert") EXCEPT !.task = c.proc.task]],
                    cache, heap)
        ELSE Commit([procs EXCEPT ![p] = c.proc], cache, heap)
  /\ UNCHANGED <<file, jobs, timers, clock, phase, ret>>

\* upsertTask after its load(): insert or replace by id, then save.
UpsertTask(p) ==
  /\ Alive /\ procs[p].pc = "upsert"
  /\ Commit([procs EXCEPT ![p] = save(procs[p], "end")], cache,
            [heap EXCEPT ![procs[p].store] = Put(@, procs[p].task)])
  /\ UNCHANGED <<file, jobs, timers, clock, phase, ret>>

\* delete_schedule arrives: getTaskByName is called.
DeleteSchedule(name) ==
  /\ Running /\ Free # {}
  /\ clock' = clock + 1
  /\ LET p == NewPid
     IN Commit([procs EXCEPT ![p] = [load(p, "delete_check") EXCEPT
                                       !.kind = "delete",
                                       !.task = [NoTask EXCEPT !.name = name]]],
               cache, heap)
  /\ UNCHANGED <<file, jobs, timers, phase, ret>>

\* Array.find returns the first match in insertion order, the oldest task.
First(ids) == CHOOSE i \in ids : \A j \in ids : i <= j

\* A deleteSchedule whose cancelTask also ends the callbacks of the task that
\* are in flight.
DeleteCheck_abort(p) ==
  /\ Alive /\ procs[p].pc = "delete_check"
  /\ LET pr == procs[p]
         found == getTaskByName(heap[pr.store], pr.task.name)
     IN IF found = {}
        THEN /\ Commit([procs EXCEPT ![p] = Finish(pr, "error")], cache, heap)
             /\ UNCHANGED <<jobs, timers>>
        ELSE LET c == cancelTask(jobs, timers, First(found))
                 np == [q \in Pids |->
                          IF procs[q].kind = "firing" /\ procs[q].pc # "done"
                             /\ procs[q].task.id = First(found)
                          THEN Finish(procs[q], "canceled") ELSE procs[q]]
             IN /\ jobs' = c.jobs
                /\ timers' = c.timers
                /\ Commit([np EXCEPT ![p] = [load(p, "delete") EXCEPT
                                               !.task = heap[pr.store][First(found)]]],
                          cache, heap)
  /\ UNCHANGED <<file, clock, phase, ret>>

\* deleteSchedule after getTaskByName: fail when no task has the name, else
\* cancel the task's job and call deleteTask.
DeleteCheck(p) ==
  /\ Alive /\ procs[p].pc = "delete_check"
  /\ LET pr == procs[p]
         found == getTaskByName(heap[pr.store], pr.task.name)
     IN IF found = {}
        THEN /\ Commit([procs EXCEPT ![p] = Finish(pr, "error")], cache, heap)
             /\ UNCHANGED <<jobs, timers>>
        ELSE LET c == cancelTask(jobs, timers, First(found))
             IN /\ jobs' = c.jobs
                /\ timers' = c.timers
                /\ Commit([procs EXCEPT ![p] = [load(p, "delete") EXCEPT
                                                  !.task = heap[pr.store][First(found)]]],
                          cache, heap)
  /\ UNCHANGED <<file, clock, phase, ret>>

\* deleteTask after its load(): return false when the id is not in the store,
\* else remove it and save.  deleteSchedule answers success in both cases.
DeleteTask(p) ==
  /\ Alive /\ procs[p].pc = "delete"
  /\ LET pr == procs[p]
     IN IF pr.task.id \notin DOMAIN heap[pr.store]
        THEN Commit([procs EXCEPT ![p] = Finish(pr, "success")], cache, heap)
        ELSE Commit([procs EXCEPT ![p] = save(pr, "end")], cache,
                    [heap EXCEPT ![pr.store] = Remove(@, pr.task.id)])
  /\ UNCHANGED <<file, jobs, timers, clock, phase, ret>>

\* ------------------------------------------------------------- initialize()
\* The loop of initialize() without the test of task.enabled.
RECURSIVE armEnabled_all(_, _, _, _)
armEnabled_all(js, tm, doc, ids) ==
  IF ids = {} THEN [jobs |-> js, timers |-> tm]
  ELSE LET i == CHOOSE x \in ids : \A y \in ids : x <= y
           s == scheduleTask(js, tm, doc[i])
       IN armEnabled_all(s.jobs, s.timers, doc, ids \ {i})

\* The loop of initialize() left at the first scheduleTask that throws.
RECURSIVE armEnabled_stop(_, _, _, _)
armEnabled_stop(js, tm, doc, ids) ==
  IF ids = {} THEN [jobs |-> js, timers |-> tm]
  ELSE LET i == First(ids)
           s == IF doc[i].enabled THEN scheduleTask(js, tm, doc[i])
                ELSE [jobs |-> js, timers |-> tm, threw |-> FALSE]
       IN IF s.threw THEN [jobs |-> js, timers |-> tm]
          ELSE armEnabled_stop(s.jobs, s.timers, doc, ids \ {i})

\* The loop of initialize() over Object.values(store.schedules), oldest first:
\* every enabled task is armed; a throwing scheduleTask is caught and logged.
RECURSIVE armEnabled(_, _, _, _)
armEnabled(js, tm, doc, ids) ==
  IF ids = {} THEN [jobs |-> js, timers |-> tm]
  ELSE LET i == First(ids)
           s == IF doc[i].enabled THEN scheduleTask(js, tm, doc[i])
                ELSE [jobs |-> js, timers |-> tm, threw |-> FALSE]
       IN armEnabled(s.jobs, s.timers, doc, ids \ {i})

\* initialize() is called: listTasks() calls load().
InitializeCall ==
  Commit([procs EXCEPT ![0] = [load(0, "arm") EXCEPT !.kind = "initialize"]], cache, heap)

\* start(): the transport is connected, then initialize() is called.
Connect ==
  /\ phase = "boot" /\ phase' = "running"
  /\ InitializeCall
  /\ UNCHANGED <<file, jobs, timers, clock, ret>>

\* initialize() after listTasks().
Arm ==
  /\ Alive /\ procs[0].pc = "arm"
  /\ LET doc == heap[procs[0].store]
         a == armEnabled(jobs, timers, doc, DOMAIN doc)
     IN /\ jobs' = a.jobs
        /\ timers' = a.timers
        /\ Commit([procs EXCEPT ![0] = Finish(procs[0], "initialized")], cache, heap)
  /\ ret' = [NoRet EXCEPT !.op = "initialize", !.val = "returned"]
  /\ UNCHANGED <<file, clock, phase>>

\* shutdown(): cancel every job of the engine, clear the map.
RECURSIVE cancelAll(_, _)
cancelAll(js, tm) ==
  IF DOMAIN js = {} THEN [jobs |-> NoJobs, timers |-> tm]
  ELSE LET i == First(DOMAIN js)
       IN cancelAll([x \in DOMAIN js \ {i} |-> js[x]], cancelJob(tm, js[i]))

shutdown(js, tm) == cancelAll(js, tm)

\* SIGINT / SIGTERM: shutdown(), then process.exit(0) ends every unit of work
\* and leaves only the file.
Signal ==
  /\ phase \in {"boot", "running"} /\ phase' = "exited"
  /\ LET s == shutdown(jobs, timers)
     IN jobs' = s.jobs /\ timers' = s.timers
  /\ Commit([p \in Pids |-> NoProc], 0, [o \in {} |-> EmptyDoc])
  /\ UNCHANGED <<file, clock, ret>>

\* ------------------------------------------------- the server as a whole
\* The file found at start: none, or one written by an earlier run (a task
\* that is enabled, one that is disabled, one whose cron does not parse).
InitFiles == {NoFile, FileOf(DocOf({TaskA, TaskB, TaskC}))}

Boot ==
  /\ file \in InitFiles
  /\ cache = 0
  /\ heap = [o \in {} |-> EmptyDoc]
  /\ jobs = NoJobs
  /\ timers = NoTimers
  /\ procs = [p \in Pids |-> NoProc]
  /\ clock = 0
  /\ ret = NoRet

Init == Boot /\ phase = "boot"

StoreStep == \E p \in Pids : LoadDir(p) \/ LoadRead(p) \/ SaveDir(p) \/ SaveWrite(p)
FiringStep ==
  \/ \E j \in DOMAIN timers : Fire(j)
  \/ \E p \in Pids : RemoteOk(p) \/ RemoteFail(p) \/ Backoff(p) \/ UpdateLastRun(p)
ToolStep ==
  \/ \E name \in Names, cron \in ToolCrons : ScheduleRecurringTask(name, cron)
  \/ \E name \in Names : DeleteSchedule(name)
  \/ \E p \in Pids : NameCheck(p) \/ UpsertTask(p) \/ DeleteCheck(p) \/ DeleteTask(p)

Next == Connect \/ Arm \/ StoreStep \/ FiringStep \/ ToolStep \/ Signal

Spec == Init /\ [][Next]_vars

\* --------------------------- the server with resources and immediate tasks
\* The resource URIs a client reads: the schedule list, and one the server
\* does not serve.
ResourceUris == {"jules://schedules", "jules://nowhere"}

\* The ReadResource handler: jules://schedules calls getSchedules(), which calls
\* listTasks(); for a URI that is not served the handler throws "Unknown
\* resource URI" inside its try block, and its catch block throws "Failed to
\* read resource" to the protocol layer.
ReadResource(uri) ==
  /\ Running /\ Free # {}
  /\ LET p == NewPid
     IN IF uri = "jules://schedules"
        THEN Commit([procs EXCEPT ![p] = [load(p, "read_res") EXCEPT !.kind = "resource"]],
                    cache, heap)
        ELSE Commit([procs EXCEPT ![p] = Finish([NoProc EXCEPT !.kind = "resource"], "thrown")],
                    cache, heap)
  /\ UNCHANGED <<file, jobs, timers, clock, phase, ret>>

\* getSchedules() after listTasks(): the handler returns the contents.
GetSchedules(p) ==
  /\ Alive /\ procs[p].pc = "read_res"
  /\ Commit([procs EXCEPT ![p] = Finish(procs[p], "contents")], cache, heap)
  /\ UNCHANGED <<file, jobs, timers, clock, phase, ret>>

\* create_coding_task arrives: CreateTaskSchema.parse(args) in the handler
\* rejects a source that is not of the form sources/github/owner/repo, and
\* validateRepository(args.source) one that is not listed; both end as
\* {success: false, error}.  Otherwise the createSession call is sent.
CreateCodingTask(source) ==
  /\ Running /\ Free # {}
  /\ LET p == NewPid
         pr == [NoProc EXCEPT !.kind = "create", !.task = [NoTask EXCEPT !.source = source]]
     IN IF validateRepository(source)
        THEN Commit([procs EXCEPT ![p] = [pr EXCEPT !.pc = "create_session", !.calls = 1]],
                    cache, heap)
        ELSE Commit([procs EXCEPT ![p] = Finish(pr, "error")], cache, heap)
  /\ UNCHANGED <<file, jobs, timers, clock, phase, ret>>

\* createCodingTask: createSession resolved or rejected; the tool answers.
CreateSession(p) ==
  /\ Alive /\ procs[p].pc = "create_session"
  /\ \E ok \in BOOLEAN :
       Commit([procs EXCEPT ![p] = Finish(procs[p], IF ok THEN "success" ELSE "error")],
              cache, heap)
  /\ UNCHANGED <<file, jobs, timers, clock, phase, ret>>

\* A stored task of a repository that is not in the allowlist of this run: the
\* file was written under another JULES_ALLOWED_REPOS, or by hand.
TaskD == [TaskA EXCEPT !.source = "sources/github/x/y"]

\* The file found at start: a document, a text that is no JSON, JSON that is
\* no schedule document.
ServerFiles == {FileOf(DocOf({TaskD, TaskB})), Malformed, FileOf(OtherJson)}

InitServer ==
  /\ file \in ServerFiles
  /\ cache = 0
  /\ heap = [o \in {} |-> EmptyDoc]
  /\ jobs = NoJobs
  /\ timers = NoTimers
  /\ procs = [p \in Pids |-> NoProc]
  /\ clock = 0
  /\ ret = NoRet
  /\ phase = "boot"

ServerStep ==
  \/ \E uri \in ResourceUris : ReadResource(uri)
  \/ \E source \in Sources : CreateCodingTask(source)
  \/ \E p \in Pids : GetSchedules(p) \/ CreateSession(p)

NextServer == Connect \/ Arm \/ StoreStep \/ FiringStep \/ ToolStep \/ Signal \/ ServerStep

SpecServer == InitServer /\ [][NextServer]_vars

\* The steps of the unit of work p that the event loop runs once they are
\* ready: a createSession call settles (fetch ends with a response or an error),
\* a setTimeout delay passes, a file-system call returns, and the code up to
\* the next await runs.
Progress(p) ==
  \/ RemoteOk(p) \/ RemoteFail(p) \/ Backoff(p) \/ UpdateLastRun(p)
  \/ LoadDir(p) \/ LoadRead(p) \/ SaveDir(p) \/ SaveWrite(p)

\* The server with the event loop's guarantee that a ready step is run.
SpecLive == Init /\ [][Next]_vars /\ \A p \in Pids : WF_vars(Progress(p))

\* ------------------------------------------- a server with two armed tasks
\* Stored task 2, enabled.
TaskE == [TaskB EXCEPT !.enabled = TRUE]

\* An enabled task stored first whose cron expression does not parse.
TaskF == [TaskC EXCEPT !.id = 1]

\* Files with two enabled tasks: both can be armed, or the first cannot.
FiringFiles == {FileOf(DocOf({TaskA, TaskE})), FileOf(DocOf({TaskF, TaskE}))}

\* The server started over a file with two enabled tasks, with no tool call
\* arriving: the timers of the tasks fire.
InitFirings ==
  /\ file \in FiringFiles
  /\ cache = 0
  /\ heap = [o \in {} |-> EmptyDoc]
  /\ jobs = NoJobs
  /\ timers = NoTimers
  /\ procs = [p \in Pids |-> NoProc]
  /\ clock = 0
  /\ ret = NoRet
  /\ phase = "boot"

NextFirings == Connect \/ Arm \/ StoreStep \/ FiringStep \/ Signal

SpecFirings == InitFirings /\ [][NextFirings]_vars

\* ------------------------------------------ the engine called directly
\* The public methods of CronEngine called one at a time by an embedding
\* program or a test, on tasks with identifiers 1 and 2; ret records the call,
\* its argument, what it returned, and what getNextInvocation returned for the
\* same identifier before the call.
EngineTasks ==
  {ScheduledTask(i, IF i = 1 THEN "X" ELSE "Y", c, "", 0, TRUE) : i \in {1, 2}, c \in Crons}

Returned(op, task, val) ==
  [op |-> op, arg |-> task, val |-> val, prev |-> getNextInvocation(jobs, timers, task.id)]

ApiScheduleTask(task) ==
  /\ Running
  /\ LET s == scheduleTask(jobs, timers, task)
     IN /\ jobs' = s.jobs
        /\ timers' = s.timers
        /\ ret' = Returned("scheduleTask", task, IF s.threw THEN "threw" ELSE "returned")
  /\ UNCHANGED <<file, cache, heap, procs, clock, phase>>

ApiRescheduleTask(task) ==
  /\ Running
  /\ LET s == rescheduleTask(jobs, timers, task)
     IN /\ jobs' = s.jobs
        /\ timers' = s.timers
        /\ ret' = Returned("rescheduleTask", task, IF s.threw THEN "threw" ELSE "returned")
  /\ UNCHANGED <<file, cache, heap, procs, clock, phase>>

ApiCancelTask(id) ==
  /\ Running
  /\ LET c == cancelTask(jobs, timers, id)
     IN /\ jobs' = c.jobs
        /\ timers' = c.timers
        /\ ret' = Returned("cancelTask", [NoTask EXCEPT !.id = id], "returned")
  /\ UNCHANGED <<file, cache, heap, procs, clock, phase>>

ApiValidateCronExpression(expression) ==
  /\ Running
  /\ LET v == validateCronExpression(timers, expression)
     IN /\ timers' = v.timers
        /\ ret' = Returned("validateCronExpression", [NoTask EXCEPT !.cron = expression],
                           IF v.ok THEN "true" ELSE "false")
  /\ UNCHANGED <<file, cache, heap, jobs, procs, clock, phase>>

ApiGetNextInvocation(id) ==
  /\ Running
  /\ ret' = Returned("getNextInvocation", [NoTask EXCEPT !.id = id],
                     getNextInvocation(jobs, timers, id))
  /\ UNCHANGED <<file, cache, heap, jobs, timers, procs, clock, phase>>

ApiInitialize ==
  /\ Running /\ procs[0].kind = "none"
  /\ InitializeCall
  /\ UNCHANGED <<file, jobs, timers, clock, phase, ret>>

ApiShutdown ==
  /\ Running /\ phase' = "down"
  /\ LET s == shutdown(jobs, timers)
     IN jobs' = s.jobs /\ timers' = s.timers
  /\ ret' = Returned("shutdown", NoTask, "returned")
  /\ UNCHANGED <<file, cache, heap, procs, clock>>

InitEngine == Boot /\ phase = "running"

ApiStep ==
  \/ \E task \in EngineTasks : ApiScheduleTask(task) \/ ApiRescheduleTask(task)
  \/ \E id \in {1, 2} : ApiCancelTask(id) \/ ApiGetNextInvocation(id)
  \/ \E expression \in Crons : ApiValidateCronExpression(expression)
  \/ ApiInitialize
  \/ ApiShutdown

NextEngine == ApiStep \/ Arm \/ StoreStep

SpecEngine == InitEngine /\ [][NextEngine]_vars

\* --------------------------------------- ScheduleStorage called directly
\* One caller (process 1) calls the store's methods one after the other.
Caller == 1
Idle == phase = "running" /\ procs[Caller].pc \in {"idle", "done"}

\* Tasks passed to upsertTask: a new task as scheduleRecurringTask builds it
\* without a timezone (the property is there, its value undefined), a new task
\* with a timezone, and stored task 1 with a last run.
StoreTasks ==
  {[ScheduledTask(4, "Z", "0 9 * * 1", "", 1, TRUE) EXCEPT !.undef = {"timezone"}],
   ScheduledTask(4, "Z", "*/5 * * * *", "Europe/Paris", 1, TRUE),
   [TaskA EXCEPT !.lastRun = 5, !.lastSessionId = 7]}

\* The caller's frame at the call of a method that starts with load().
Call(k, task) ==
  LET l == load(Caller, k)
  IN IF l.pc = "done" THEN [l EXCEPT !.kind = "api", !.task = task]
     ELSE [l EXCEPT !.kind = "api", !.task = task, !.k = IF l.pc = k THEN "" ELSE k,
                    !.result = ""]

\* load()
StoreLoad ==
  /\ Idle
  /\ Commit([procs EXCEPT ![Caller] = Call("ret_load", NoTask)], cache, heap)
  /\ UNCHANGED <<file, jobs, timers, clock, phase, ret>>

\* load() returns its document to the caller.
ReturnLoad(p) ==
  /\ Alive /\ procs[p].pc = "ret_load"
  /\ Commit([procs EXCEPT ![p] = Finish(procs[p], "returned")], cache, heap)
  /\ UNCHANGED <<file, jobs, timers, clock, phase, ret>>

\* save(await load())
StoreSaveLoaded ==
  /\ Idle
  /\ Commit([procs EXCEPT ![Caller] = Call("save_loaded", NoTask)], cache, heap)
  /\ UNCHANGED <<file, jobs, timers, clock, phase, ret>>

\* save(document) is called with the document load() returned.
SaveLoaded(p) ==
  /\ Alive /\ procs[p].pc = "save_loaded"
  /\ Commit([procs EXCEPT ![p] = save(procs[p], "end")], cache, heap)
  /\ UNCHANGED <<file, jobs, timers, clock, phase, ret>>

\* upsertTask(task)
StoreUpsertTask(task) ==
  /\ Idle
  /\ Commit([procs EXCEPT ![Caller] = Call("upsert", task)], cache, heap)
  /\ ret' = [op |-> "upsertTask", arg |-> task, val |-> "called", prev |-> ""]
  /\ UNCHANGED <<file, jobs, timers, clock, phase>>

\* getTask(id)
StoreGetTask(id) ==
  /\ Idle
  /\ Commit([procs EXCEPT ![Caller] = Call("get_task", [NoTask EXCEPT !.id = id])],
            cache, heap)
  /\ UNCHANGED <<file, jobs, timers, clock, phase, ret>>

\* getTask after its load(): store.schedules[id].  prev tells whether the
\* document came from the cache or from the file.
GetTask(p) ==
  /\ Alive /\ procs[p].pc = "get_task"
  /\ LET pr == procs[p]
         doc == heap[pr.store]
         found == pr.task.id \in DOMAIN doc
     IN /\ ret' = [op |-> "getTask",
                   arg |-> IF found THEN doc[pr.task.id] ELSE NoTask,
                   val |-> IF found THEN "found" ELSE "undefined",
                   prev |-> IF pr.k = "get_task" THEN "file" ELSE "cache"]
        /\ Commit([procs EXCEPT ![p] = Finish(pr, "returned")], cache, heap)
  /\ UNCHANGED <<file, jobs, timers, clock, phase>>

\* invalidateCache(); ret notes that the cache was dropped since the call it
\* records.
InvalidateCache ==
  /\ Idle /\ cache # 0
  /\ Commit(procs, 0, heap)
  /\ ret' = [ret EXCEPT !.prev = "invalidated"]
  /\ UNCHANGED <<file, jobs, timers, clock, phase>>

\* The process dies while writeFile is in flight (kill -9, power loss).
\* writeFile opens the file with truncation and then writes the text: the
\* file is left as it was (not yet opened), empty or with a leading part of the
\* text (both rejected by JSON.parse), or complete.
Crash(p) ==
  /\ phase = "running" /\ procs[p].pc = "save_write"
  /\ file' \in {file, Malformed, FileOf(procs[p].data)}
  /\ phase' = "exited"
  /\ jobs' = NoJobs /\ timers' = NoTimers
  /\ Commit([q \in Pids |-> NoProc], 0, [o \in {} |-> EmptyDoc])
  /\ UNCHANGED <<clock, ret>>

\* A new process is started on the same file.
Restart ==
  /\ phase = "exited" /\ phase' = "running"
  /\ ret' = NoRet
  /\ UNCHANGED <<file, cache, heap, jobs, timers, procs, clock>>

\* The file at the start: none, a document, a text that is not JSON, JSON that
\* is not a document.
StoreFiles == {NoFile, FileOf(DocOf({TaskA, TaskB})), Malformed, FileOf(OtherJson)}

InitStore ==
  /\ file \in StoreFiles
  /\ cache = 0
  /\ heap = [o \in {} |-> EmptyDoc]
  /\ jobs = NoJobs
  /\ timers = NoTimers
  /\ procs = [p \in Pids |-> NoProc]
  /\ clock = 0
  /\ ret = NoRet
  /\ phase = "running"

StoreCall ==
  \/ StoreLoad
  \/ StoreSaveLoaded
  \/ \E task \in StoreTasks : StoreUpsertTask(task)
  \/ \E id \in {1, 4} : StoreGetTask(id)
  \/ InvalidateCache

NextStore ==
  \/ StoreCall
  \/ StoreStep
  \/ \E p \in Pids : ReturnLoad(p) \/ SaveLoaded(p) \/ UpsertTask(p) \/ GetTask(p)
  \/ \E p \in Pids : Crash(p)
  \/ Restart

SpecStore == InitStore /\ [][NextStore]_vars

\* ------------------------------------------------ the server, failing writes
\* save(): writeFile rejects (the file cannot be opened for writing: read-only
\* file system, permissions, no space).  The file is as it was and save()
\* throws before it assigns the cache.
SaveFails(p) ==
  /\ Alive /\ procs[p].pc = "save_write"
  /\ Commit([procs EXCEPT ![p] = saveThrows(procs[p])], cache, heap)
  /\ UNCHANGED <<file, jobs, timers, clock, phase, ret>>

NextFaulty == Next \/ \E p \in Pids : SaveFails(p)

SpecFaulty == Init /\ [][NextFaulty]_vars

\* ================================================================= claims
TimersOf(id) == {j \in DOMAIN timers : timers[j].task.id = id}
Armed(id) == getNextInvocation(jobs, timers, id) # "null"
Exits == phase' = "exited"

\* C1: at most one timer is armed per task identifier, and it is the one the
\* engine's map holds; after scheduleTask or rescheduleTask has returned for a
\* task, exactly one timer is armed for its identifier and that timer is bound
\* to the definition just supplied, also when the identifier was armed before.
C1_OneTimerPerTask ==
  /\ \A j \in DOMAIN timers :
       /\ Cardinality(TimersOf(timers[j].task.id)) = 1
       /\ timers[j].task.id \in DOMAIN jobs
       /\ jobs[timers[j].task.id] = j
  /\ (ret.op \in {"scheduleTask", "rescheduleTask"} /\ ret.val = "returned") =>
       /\ Cardinality(TimersOf(ret.arg.id)) = 1
       /\ \A j \in TimersOf(ret.arg.id) :
            timers[j].task = ret.arg /\ timers[j].cron = ret.arg.cron

\* scheduleTask has returned for an identifier that was armed with another
\* definition.
C1_Rearmed ==
  /\ ret.op = "scheduleTask" /\ ret.val = "returned" /\ ret.prev = "next"
  /\ ret.arg.cron = "*/5 * * * *" /\ ret.arg.id = 1
  /\ Cardinality(TimersOf(1)) = 1

\* The step of firing p in which updateLastRun assigns the last-run fields of
\* its task and goes on to save.
Records(p) ==
  /\ procs[p].kind = "firing" /\ procs[p].pc = "ulr"
  /\ procs'[p].kind = "firing" /\ procs'[p].pc = "save_dir"

Record(h, p) == h[procs[p].store][procs[p].task.id]

\* C2: a firing makes at most 3 createSession calls and none after one has
\* succeeded; when a call succeeds, updateLastRun sets the task's record to the
\* timestamp taken when the firing began and to the session id that call
\* returned.
C2_RetryThenRecord ==
  /\ [](\A p \in Pids : procs[p].kind = "firing" /\ procs[p].pc # "done" =>
          /\ procs[p].calls <= 3
          /\ procs[p].calls = procs[p].attempt + (IF procs[p].threw THEN 0 ELSE 1)
          /\ procs[p].sid # 0 =>
               /\ procs[p].pc \notin {"remote", "backoff"}
               /\ procs[p].sid = SessionId(p, procs[p].calls - 1))
  /\ [][\A p \in Pids : Records(p) /\ ~procs[p].threw =>
          /\ procs[p].sid # 0
          /\ Record(heap', p).lastRun = procs[p].ts
          /\ Record(heap', p).lastSessionId = procs[p].sid]_vars

\* A firing whose first two calls failed and whose third succeeded has recorded
\* the third call's session, while the clock has moved on since it began.
C2_ThirdAttemptRecorded ==
  \E p \in Pids :
    /\ procs[p].kind = "firing" /\ procs[p].pc = "save_write"
    /\ procs[p].calls = 3 /\ procs[p].sid = SessionId(p, 2)
    /\ procs[p].task.id \in DOMAIN procs[p].data
    /\ procs[p].data[procs[p].task.id].lastSessionId = procs[p].sid
    /\ procs[p].data[procs[p].task.id].lastRun = procs[p].ts
    /\ procs[p].ts < clock

\* C3: when all calls of a firing have failed, it has made exactly 3 calls and
\* updateLastRun sets the task's record to the fire timestamp with no session
\* id, whatever session id the record held.
C3_ExhaustedStillRecords ==
  [][\A p \in Pids : Records(p) /\ procs[p].threw =>
       /\ procs[p].calls = 3
       /\ Record(heap', p).lastRun = procs[p].ts
       /\ Record(heap', p).lastSessionId = 0]_vars

\* A failed firing is writing a record without session id over a file whose
\* record of the task has the session id of an earlier run.
C3_FailureOverSuccess ==
  \E p \in Pids :
    /\ procs[p].kind = "firing" /\ procs[p].pc = "save_write" /\ procs[p].threw
    /\ procs[p].calls = 3
    /\ procs[p].task.id \in DOMAIN procs[p].data
    /\ procs[p].data[procs[p].task.id].lastSessionId = 0
    /\ procs[p].data[procs[p].task.id].lastRun = procs[p].ts
    /\ file.exists /\ procs[p].task.id \in DOMAIN file.doc
    /\ file.doc[procs[p].task.id].lastSessionId # 0

\* A step taken by firing p (its start included).
FiringMoves(p) == procs'[p].kind = "firing" /\ procs'[p] # procs[p]

EnabledKept(d, e) == \A i \in DOMAIN d \cap DOMAIN e : e[i].enabled = d[i].enabled

\* C4: no step of a firing, whatever its outcome, changes the engine's jobs or
\* the armed timers or the enabled flag of a task; a task that was armed is no
\* longer armed only after deleteSchedule's cancelTask or after shutdown.
C4_FiringKeepsArmed ==
  /\ [][\A p \in Pids : FiringMoves(p) =>
          /\ jobs' = jobs /\ timers' = timers
          /\ EnabledKept(file.doc, file'.doc)
          /\ \A o \in DOMAIN heap \cap DOMAIN heap' : EnabledKept(heap[o], heap'[o])]_vars
  /\ [][\A id \in 1..(3 + MaxProcs) : Armed(id) /\ ~Armed(id)' =>
          \/ Exits
          \/ \E p \in Pids : /\ procs[p].kind = "delete" /\ procs[p].pc = "delete_check"
                             /\ procs'[p].pc # "delete_check"
                             /\ procs'[p].task.id = id]_vars

\* A firing whose 3 calls all failed is writing its record, and its task is
\* still armed and enabled.
C4_ArmedAfterFailure ==
  \E p \in Pids :
    /\ procs[p].kind = "firing" /\ procs[p].pc = "save_write" /\ procs[p].threw
    /\ Armed(procs[p].task.id)
    /\ timers[jobs[procs[p].task.id]].task = procs[p].task
    /\ procs[p].task.id \in DOMAIN procs[p].data
    /\ procs[p].data[procs[p].task.id].enabled

\* C5: when initialize() has returned on a freshly started server (no tool
\* call has arrived yet), a task of the store document has a next invocation
\* exactly if it is enabled and its cron expression parses.
C5_OnlyEnabledArmed ==
  (/\ procs[0].kind = "initialize" /\ procs[0].pc = "done"
   /\ \A p \in 1..MaxProcs : procs[p].kind \in {"none", "firing"}) =>
    /\ cache # 0
    /\ \A id \in DOMAIN heap[cache] :
         Armed(id) <=> (heap[cache][id].enabled /\ cronParses(heap[cache][id].cron))

\* initialize() has returned with an enabled task armed, a disabled task not
\* armed and a task whose cron does not parse not armed.
C5_Hydrated ==
  /\ procs[0].kind = "initialize" /\ procs[0].pc = "done"
  /\ \A p \in 1..MaxProcs : procs[p].kind = "none"
  /\ cache # 0 /\ DOMAIN heap[cache] = {1, 2, 3}
  /\ Armed(1) /\ ~Armed(2) /\ ~Armed(3)

\* C6: no trial job of validateCronExpression is ever left armed, and a call of
\* validateCronExpression, with an expression that parses or not, leaves the
\* armed timers and the engine's jobs as they were and returns a boolean.
C6_ValidationLeakFree ==
  /\ [](\A j \in DOMAIN timers : timers[j].task # NoTask)
  /\ [][\A e \in Crons : ApiValidateCronExpression(e) =>
          /\ timers' = timers /\ jobs' = jobs
          /\ ret'.val = (IF cronParses(e) THEN "true" ELSE "false")]_vars

\* validateCronExpression has returned true while two timers were armed, and
\* the two are all that is armed.
C6_ValidatedWhileArmed ==
  /\ ret.op = "validateCronExpression" /\ ret.val = "true"
  /\ Cardinality(DOMAIN timers) = 2 /\ DOMAIN jobs = {1, 2}

\* The step of firing p in which updateLastRun finds that its task is not in
\* the store.
FindsNothing(p) ==
  /\ procs[p].kind = "firing" /\ procs[p].pc = "ulr" /\ procs'[p] # procs[p]
  /\ ~Exits
  /\ procs[p].task.id \notin DOMAIN heap[procs[p].store]

\* C8: when updateLastRun finds no task with the identifier, the firing ends
\* there without an error, no document is changed and no write is started.
C8_AbsentIsNoOp ==
  [][\A p \in Pids : FindsNothing(p) =>
       /\ procs'[p].pc = "done" /\ procs'[p].result = "absent"
       /\ file' = file /\ cache' = cache
       /\ \A o \in DOMAIN heap' : o \in DOMAIN heap /\ heap'[o] = heap[o]]_vars

\* A firing has ended at a store from which its task had been deleted by a
\* delete_schedule call that succeeded.
C8_FiringAfterDelete ==
  \E p, q \in Pids :
    /\ procs[p].kind = "firing" /\ procs[p].pc = "done" /\ procs[p].result = "absent"
    /\ procs[q].kind = "delete" /\ procs[q].result = "success"
    /\ procs[q].task.id = procs[p].task.id

\* The tasks of document d that have the name.
Named(d, name) == {i \in DOMAIN d : d[i].name = name}

\* A step of schedule_recurring_task call p up to and including its test of
\* the name: the arrival, the lookup's load, the test.
Looks(p) ==
  /\ procs'[p].kind = "schedule" /\ procs'[p] # procs[p]
  /\ procs[p].pc \notin {"upsert", "save_dir", "save_write"}
  /\ procs'[p].pc \notin {"save_dir"}

\* The step in which call p tests a name that a task of the looked-up store has.
FindsName(p) ==
  /\ procs[p].kind = "schedule" /\ procs[p].pc = "name_check" /\ procs'[p] # procs[p]
  /\ ~Exits
  /\ Named(heap[procs[p].store], procs[p].task.name) # {}

StoreKept == file' = file /\ \A o \in DOMAIN heap \cap DOMAIN heap' : heap'[o] = heap[o]

\* C9: a schedule_recurring_task call whose name a stored task already has ends
\* at the test with a failure response; no step of the call up to and including
\* the test changes the file, a store object, the engine's jobs or the timers.
C9_DuplicateRejectedFirst ==
  /\ [][\A p \in Pids : FindsName(p) =>
          procs'[p].pc = "done" /\ procs'[p].result = "error"]_vars
  /\ [][\A p \in Pids : (Looks(p) \/ FindsName(p)) =>
          StoreKept /\ timers' = timers /\ jobs' = jobs]_vars

\* A call with the name of stored task 1 and a cron expression that parses has
\* been answered with a failure; task 1 is stored and armed as before.
C9_Rejected ==
  \E p \in Pids :
    /\ procs[p].kind = "schedule" /\ procs[p].pc = "done" /\ procs[p].result = "error"
    /\ cronParses(procs[p].task.cron) /\ procs[p].task.name = TaskA.name
    /\ file.doc = DocOf({TaskA, TaskB, TaskC})
    /\ Armed(1) /\ DOMAIN jobs = {1}

\* C10 as stated: no two tasks of the stored document have the same name.
C10_UniqueNames ==
  \A i, j \in DOMAIN file.doc : file.doc[i].name = file.doc[j].name => i = j

\* C10, at creation time only: a schedule_recurring_task call goes on to create
\* its task only if the store object its lookup returned has no task of that
\* name at the moment of the test.
C10_UniqueAtCreation ==
  [][\A p \in Pids :
       (/\ procs[p].kind = "schedule" /\ procs[p].pc = "name_check"
        /\ procs'[p].kind = "schedule" /\ procs'[p].pc \notin {"name_check", "done"}) =>
         /\ Named(heap[procs[p].store], procs[p].task.name) = {}
         /\ procs'[p].task.name = procs[p].task.name
         /\ procs'[p].task.id \notin DOMAIN heap[procs[p].store]]_vars

\* Of two calls with the same name, one has created its task and the other has
\* been rejected: the file holds one task of that name.
C10_SecondRejected ==
  \E p, q \in Pids :
    /\ procs[p].kind = "schedule" /\ procs[p].result = "success"
    /\ procs[q].kind = "schedule" /\ procs[q].result = "error"
    /\ procs[p].task.name = procs[q].task.name /\ cronParses(procs[q].task.cron)
    /\ Named(file.doc, procs[p].task.name) = {procs[p].task.id}

\* C7 as stated, for the file: once delete_schedule has succeeded for a task of
\* which a firing is or was in flight, the task is not in the file, whatever
\* the firing's updateLastRun has written or writes.
C7_DeletionPermanent ==
  \A p, q \in Pids :
    (/\ procs[p].kind = "delete" /\ procs[p].pc = "done" /\ procs[p].result = "success"
     /\ procs[q].kind = "firing" /\ procs[q].task.id = procs[p].task.id) =>
      procs[p].task.id \notin DOMAIN file.doc

\* The step in which a load() that found no backing file returns to its caller
\* (the caller goes on at its continuation k).
FirstLoadReturns(p) ==
  /\ procs[p].pc \in {"load_dir", "save_dir", "save_write"} /\ procs[p].k # "end"
  /\ procs'[p].kind = procs[p].kind /\ procs'[p].pc = procs[p].k

\* C12: when load() finds no backing file, then at its return the file exists
\* and holds the empty document, the cache is the returned object, and that
\* object is the empty document.
C12_FirstLoadPersists ==
  [][\A p \in Pids : FirstLoadReturns(p) =>
       /\ file' = FileOf(EmptyDoc)
       /\ procs'[p].store # 0 /\ cache' = procs'[p].store
       /\ heap'[cache'] = EmptyDoc]_vars

\* initialize()'s load() has returned on a machine that had no file: the file
\* now holds the empty document and the cache is the returned object.
C12_EmptyFileCreated ==
  /\ procs[0].kind = "initialize" /\ procs[0].pc = "arm"
  /\ file = FileOf(EmptyDoc)
  /\ cache = procs[0].store /\ cache # 0 /\ heap[cache] = EmptyDoc

C11_SaveAtomic ==
  [][\A p \in Pids :
       (procs[p].pc = "save_write" /\ phase = "running" /\ phase' = "exited") =>
         file' = file \/ file' = FileOf(procs[p].data)]_vars

\* The step in which save(await load()) ends.
SaveLoadedEnds(p) ==
  /\ procs[p].kind = "api" /\ procs[p].pc = "save_write" /\ procs[p].k = "end"
  /\ procs[p].task.id = 0 /\ procs'[p].pc = "done"

\* The step in which getTask returns the task of the id that the latest
\* upsertTask call was given.
GetsUpserted(p) ==
  /\ procs[p].kind = "api" /\ procs[p].pc = "get_task" /\ procs'[p].pc = "done"
  /\ ret.op = "upsertTask" /\ ret.arg.id = procs[p].task.id

\* C13 as stated: save(load()) leaves the file's content as it was, and
\* getTask(t.id) after upsertTask(t) returns a task equal to t, property by
\* property, from the cache and from the file alike.
C13_RoundTrip ==
  /\ [][\A p \in Pids : SaveLoadedEnds(p) => file' = file]_vars
  /\ [][\A p \in Pids : GetsUpserted(p) => ret'.val = "found" /\ ret'.arg = ret.arg]_vars

\* C13, up to properties without a value: save(load()) leaves the file's
\* content as it was; getTask(t.id) after upsertTask(t) returns t itself when
\* the cache was not invalidated in between, and else, re-read from the file,
\* a task that has every property of t that has a value, with that value, and
\* no other.
C13_RoundTripJson ==
  /\ [][\A p \in Pids : SaveLoadedEnds(p) => file' = file]_vars
  /\ [][\A p \in Pids : GetsUpserted(p) =>
          /\ ret'.val = "found"
          /\ [ret'.arg EXCEPT !.undef = {}] = [ret.arg EXCEPT !.undef = {}]
          /\ ret.prev = "" => ret'.arg = ret.arg
          /\ ret.prev = "invalidated" => ret'.arg.undef = {}]_vars

\* getTask is about to return, from a document re-read from the file, the
\* task a preceding upsertTask stored with its timezone undefined.
C13_RereadAfterUpsert ==
  /\ procs[Caller].kind = "api" /\ procs[Caller].pc = "get_task"
  /\ procs[Caller].k = "get_task"
  /\ ret.op = "upsertTask" /\ ret.arg.id = procs[Caller].task.id
  /\ ret.arg.undef = {"timezone"} /\ ret.prev = "invalidated"
  /\ procs[Caller].task.id \in DOMAIN heap[procs[Caller].store]

\* C14 as stated: a load() that reads a text which is not the JSON of a
\* document (malformed, or JSON of another shape) fails and caches nothing.
C14_CorruptRejected ==
  [][\A p \in Pids :
       (/\ procs[p].pc = "load_read" /\ procs[p].k = "ret_load"
        /\ file.form \in {"malformed", "other"} /\ procs'[p] # procs[p]) =>
         /\ procs'[p].pc = "done" /\ procs'[p].result = "error"
         /\ cache' = 0]_vars

\* C15: when the backing file is corrupt at process start, initialization is
\* aborted and the server serves no call: once initialize() has failed, no
\* tool call, resource read or firing is started.
C15_CorruptAbortsStart ==
  [][procs[0].result = "failed" =>
       \A p \in 1..MaxProcs : procs[p].kind = "none" => procs'[p].kind = "none"]_vars

\* C16: on a corrupt backing file the server starts from an empty document:
\* the load() of initialize() that reads a corrupt file leaves a new file
\* holding the empty document, and initialize() does not fail.
C16_CorruptStartsEmpty ==
  [][(/\ procs[0].pc = "load_read" /\ procs[0].k = "arm"
      /\ file.form \in {"malformed", "other"}
      /\ procs'[0].pc # "load_read" /\ phase' # "exited")
     => (file' = FileOf(EmptyDoc) /\ procs'[0].result # "failed")]_vars

\* C17: no error of a tool call or a resource read is thrown across the
\* protocol boundary: no handler ends by throwing.
C17_NothingThrown == \A p \in Pids : procs[p].result # "thrown"

\* C18: the payload of a tool call that succeeded has success = true, and a
\* payload has success = false exactly when the operation failed.
C18_SuccessEnvelope ==
  \A p \in Pids :
    procs[p].kind \in {"schedule", "delete", "create"} /\ procs[p].pc = "done" =>
      /\ procs[p].result = "success" => procs[p].success = "true"
      /\ procs[p].success = "false" <=> procs[p].result = "error"

\* C19: with the allowlist set, no createSession call is in flight for a source
\* outside it, from create_coding_task or from the firing of a stored task.
C19_AllowlistAlways ==
  \A p \in Pids :
    procs[p].pc \in {"remote", "create_session"} => validateRepository(procs[p].task.source)

\* Firing p is in flight.
InFlight(p) == procs[p].kind = "firing" /\ procs[p].pc # "done"

\* C21: a firing that has begun runs to its conclusion whatever cancelTask or
\* delete_schedule does meanwhile: it reaches updateLastRun only after a call
\* that succeeded or after 3 calls that failed, it ends only in updateLastRun
\* (the record written, or the task not found), the step that disarms its task
\* leaves it as it was, and unless the process exits it does end.
C21_FiringRunsOut ==
  /\ [](\A p \in Pids : InFlight(p) /\ procs[p].pc \notin {"remote", "backoff"} =>
          \/ procs[p].sid # 0 /\ ~procs[p].threw
          \/ procs[p].sid = 0 /\ procs[p].threw /\ procs[p].calls = 3)
  /\ [][\A p \in Pids : InFlight(p) /\ procs'[p] # procs[p] /\ ~Exits =>
          /\ procs'[p].kind = "firing"
          /\ procs'[p].pc = "done" =>
               /\ procs[p].pc \in {"ulr", "save_write"}
               /\ procs'[p].result \in {"recorded", "absent"}]_vars
  /\ [][\A p \in Pids : InFlight(p) /\ Armed(procs[p].task.id)
                         /\ ~Armed(procs[p].task.id)' /\ ~Exits =>
          procs'[p] = procs[p]]_vars
  /\ \A p \in Pids : InFlight(p) ~> (procs[p].pc = "done" \/ phase = "exited")

\* A firing whose 3 calls have failed is at its updateLastRun call, after a
\* delete_schedule call for its task has succeeded and disarmed the task.
C21_ConcludesAfterDelete ==
  \E p, q \in Pids :
    /\ InFlight(p) /\ procs[p].pc = "ulr" /\ procs[p].threw /\ procs[p].calls = 3
    /\ procs[q].kind = "delete" /\ procs[q].result = "success"
    /\ procs[q].task.id = procs[p].task.id
    /\ ~Armed(procs[p].task.id)
    /\ procs[p].task.id \notin DOMAIN file.doc

\* C22: firings of different tasks do not wait for one another: whatever the
\* other callbacks are doing, an armed timer can fire (while the model has a
\* free unit of work) and every firing in flight has a step it can take; a
\* step of one firing leaves the state of every other firing as it was.
C22_FiringsIndependent ==
  /\ [](\A j \in DOMAIN timers : Running /\ Free # {} => ENABLED Fire(j))
  /\ [](\A p \in Pids : InFlight(p) /\ Alive => ENABLED Progress(p))
  /\ [][\A p, q \in Pids : p # q /\ FiringMoves(p) /\ InFlight(q) /\ ~Exits =>
          procs'[q] = procs[q]]_vars

\* The firing of task 1 is still in its retry loop after its first call, and
\* task 2, which fired later, has its run recorded in the file.
C22_OvertakenInRetry ==
  \E p \in Pids :
    /\ InFlight(p) /\ procs[p].pc \in {"remote", "backoff"} /\ procs[p].task.id = 1
    /\ procs[p].ts = 1
    /\ file.doc[2].lastRun > procs[p].ts /\ file.doc[2].lastSessionId # 0

\* C23: initialize() arms every enabled task whose cron expression parses,
\* also those that come after a task whose arming throws, and it returns
\* without throwing.
C23_ArmingIsolated ==
  [][(procs[0].pc = "arm" /\ procs'[0].pc # "arm" /\ ~Exits) =>
       /\ procs'[0].pc = "done" /\ procs'[0].result = "initialized"
       /\ \A id \in DOMAIN heap[procs[0].store] :
            LET t == heap[procs[0].store][id]
            IN (t.enabled /\ cronParses(t.cron)) => Armed(id)'
       /\ \A id \in DOMAIN heap[procs[0].store] :
            ~cronParses(heap[procs[0].store][id].cron) => ~Armed(id)']_vars

\* initialize() has returned over a file whose first task cannot be armed: the
\* first task is not armed, the second one is.
C23_SecondArmedAfterThrow ==
  /\ procs[0].kind = "initialize" /\ procs[0].result = "initialized"
  /\ file.doc[1].enabled /\ ~cronParses(file.doc[1].cron)
  /\ ~Armed(1) /\ Armed(2) /\ timers[jobs[2]].task.id = 2

\* C24: the timer armed for a task is bound to the task's cron expression and
\* to the task's timezone (process-local time, "", only when the task has
\* none), so that the next invocation is computed in that timezone.
C24_TimezoneBound ==
  \A id \in DOMAIN jobs :
    jobs[id] \in DOMAIN timers =>
      /\ timers[jobs[id]].cron = timers[jobs[id]].task.cron
      /\ timers[jobs[id]].tz = timers[jobs[id]].task.timezone

\* C25: once shutdown() has been called no timer is armed: the engine holds no
\* job and getNextInvocation is null for every identifier.
C25_NothingArmedAfterShutdown ==
  phase = "down" =>
    /\ DOMAIN timers = {} /\ DOMAIN jobs = {}
    /\ \A id \in 1..(3 + MaxProcs) : ~Armed(id)

\* A firing that began at timestamp ts is in flight (every firing begins at a
\* timestamp of its own).
Began(ts) == \E p \in Pids : InFlight(p) /\ procs[p].ts = ts

\* The file holds the run that began at timestamp ts as its task's last run.
Logged(ts) == \E id \in DOMAIN file.doc : file.doc[id].lastRun = ts

\* C26: every firing that begins is eventually recorded in the file as its
\* task's lastRun, unless the process exits first.
C26_EveryFiringLogged ==
  \A ts \in 1..MaxProcs : Began(ts) ~> (Logged(ts) \/ phase = "exited")

\* C27: the store is last-writer-wins and takes no lock: a write that completes
\* makes the file exactly the writer's own text and the cache the writer's own
\* object, whatever the file and the cache held, and a write that is under way
\* is never held back by another unit of work.
C27_LastWriterWins ==
  /\ [](\A p \in Pids : procs[p].pc = "save_write" /\ Alive => ENABLED SaveWrite(p))
  /\ [][\A p \in Pids :
          (procs[p].pc = "save_write" /\ procs'[p].pc # "save_write" /\ ~Exits) =>
            file' = FileOf(procs[p].data) /\ cache' = procs[p].store]_vars

\* Two schedule_recurring_task calls have both been answered with success and
\* the file holds the task of one of them only.
C27_LostUpdate ==
  \E p, q \in Pids :
    /\ p # q
    /\ procs[p].kind = "schedule" /\ procs[p].result = "success"
    /\ procs[q].kind = "schedule" /\ procs[q].result = "success"
    /\ \A r \in Pids : procs[r].pc \in {"idle", "done"}
    /\ procs[p].task.id \notin DOMAIN file.doc
    /\ procs[q].task.id \in DOMAIN file.doc

\* C28: the scheduler is initialized before the transport is connected: a tool
\* call is taken up only when initialize() has returned.
C28_HydratedBeforeServing ==
  [][\A p \in 1..MaxProcs :
       (procs[p].kind = "none" /\ procs'[p].kind \in {"schedule", "delete"}) =>
         procs[0].pc = "done" /\ procs[0].result = "initialized"]_vars

\* C29: deleteTask removes the task and returns true exactly when the
\* identifier is in the store, and otherwise returns false and changes no
\* document; delete_schedule answers success only when its own deleteTask call
\* removed a stored task.
C29_DeletionReported ==
  [][\A p \in Pids :
       (procs[p].kind = "delete" /\ procs[p].pc = "delete"
        /\ procs'[p] # procs[p] /\ ~Exits) =>
         IF procs[p].task.id \in DOMAIN heap[procs[p].store]
         THEN /\ procs'[p].pc = "save_dir"
              /\ heap'[procs[p].store] = Remove(heap[procs[p].store], procs[p].task.id)
         ELSE /\ StoreKept
              /\ procs'[p].pc = "done" /\ procs'[p].result # "success"]_vars

\* The job and the timer of identifier id are the same after the step.
TimerKept(id) ==
  id \in DOMAIN jobs =>
    /\ id \in DOMAIN jobs' /\ jobs'[id] = jobs[id]
    /\ jobs[id] \in DOMAIN timers =>
         jobs[id] \in DOMAIN timers' /\ timers'[jobs[id]] = timers[jobs[id]]

\* C30: cancelTask(id) returns without error; for an identifier that has no
\* job it changes neither the jobs nor the timers; after it getNextInvocation
\* is null for id, and stays null until a scheduleTask call for id (by the
\* caller or by initialize()); the jobs and timers of the other identifiers
\* are as before.
C30_CancelIsLocal ==
  /\ [][\A id \in {1, 2} : ApiCancelTask(id) =>
          /\ ret'.val = "returned"
          /\ ~Armed(id)' /\ id \notin DOMAIN jobs'
          /\ id \notin DOMAIN jobs => (jobs' = jobs /\ timers' = timers)
          /\ \A other \in {1, 2} \ {id} : TimerKept(other)
          /\ DOMAIN timers' \subseteq DOMAIN timers]_vars
  /\ [][\A id \in {1, 2} : (~Armed(id) /\ Armed(id)') =>
          \/ ret'.op \in {"scheduleTask", "rescheduleTask"} /\ ret'.arg.id = id
                /\ ret' # ret
          \/ procs[0].pc = "arm" /\ procs'[0].pc = "done"]_vars

\* cancelTask has returned for identifier 1, which had no job, while the job
\* of identifier 2 is armed.
C30_CanceledUnarmed ==
  /\ ret.op = "cancelTask" /\ ret.arg.id = 1 /\ ret.prev = "null" /\ ret.val = "returned"
  /\ ~Armed(1) /\ Armed(2) /\ DOMAIN jobs = {2}

\* A call of a store method by the caller begins.
Calls == Idle /\ procs'[Caller].pc \notin {"idle", "done"} /\ procs' # procs

\* C31: while a cache is present, load() returns the cached object at once,
\* without a wait for the directory or the file and with the file untouched;
\* without a cache it goes to the file, and the document it then returns is
\* the content of the backing file.
C31_CacheThenFile ==
  /\ [][Calls =>
          IF cache # 0
          THEN /\ procs'[Caller].store = cache
               /\ procs'[Caller].pc \notin {"load_dir", "load_read"}
               /\ cache' = cache /\ heap'[cache] = heap[cache] /\ file' = file
          ELSE procs'[Caller].pc = "load_dir"]_vars
  /\ [][InvalidateCache => cache' = 0 /\ file' = file]_vars
  /\ [](procs[Caller].pc = "ret_load" /\ procs[Caller].k = "ret_load" =>
          file.exists /\ heap[procs[Caller].store] = file.doc)

\* After an upsertTask of a task whose timezone is undefined and an
\* invalidateCache(), load() has read the file: the task it returns is not
\* the object that was cached.
C31_RereadAfterInvalidate ==
  /\ ret.op = "upsertTask" /\ ret.prev = "invalidated" /\ ret.arg.undef # {}
  /\ procs[Caller].pc = "ret_load" /\ procs[Caller].k = "ret_load"
  /\ heap[procs[Caller].store] = file.doc
  /\ ret.arg.id \in DOMAIN file.doc
  /\ file.doc[ret.arg.id] # ret.arg

\* The fields of a task that updateLastRun does not assign.
OtherFields == {"id", "name", "cron", "source", "timezone", "createdAt", "enabled"}

C34_ThrowKeepsTimers ==
  [][\A task \in EngineTasks :
       (ApiScheduleTask(task) \/ ApiRescheduleTask(task)) /\ ret'.val = "threw" =>
         jobs' = jobs /\ timers' = timers]_vars

\* No unit of work is in flight.
Quiet == \A p \in Pids : procs[p].pc \in {"idle", "done"}

\* C35: a task for which delete_schedule has answered success has no armed
\* timer, and whenever nothing is in flight every armed timer belongs to a
\* task that the backing file holds with enabled = true.
C35_ArmedAreStored ==
  /\ \A p \in Pids :
       (procs[p].kind = "delete" /\ procs[p].pc = "done" /\ procs[p].result = "success") =>
         ~Armed(procs[p].task.id)
  /\ Quiet =>
       \A j \in DOMAIN timers :
         /\ timers[j].task.id \in DOMAIN file.doc
         /\ file.doc[timers[j].task.id].enabled

\* C36: the lastRun the backing file holds for a task never decreases from one
\* write to the next.
C36_LastRunMonotonic ==
  [][\A id \in DOMAIN file.doc \cap DOMAIN file'.doc :
       file'.doc[id].lastRun >= file.doc[id].lastRun]_vars

\* No unit of work is between the start and the end of a Store operation.
StoreIdle == \A p \in Pids : procs[p].pc \in {"idle", "done", "remote", "backoff"}

\* C33: whenever no Store operation is in progress and a document is cached,
\* the text of the cached document is the content of the backing file.
C33_CacheIsFile ==
  (Alive /\ StoreIdle /\ cache # 0) => (file.exists /\ stringify(heap[cache]) = file.doc)

\* C37: every record written by a firing whose remote call succeeded has the
\* session id that call returned, also when the firing's first updateLastRun
\* has thrown.
C37_SuccessKeepsSession ==
  [][\A p \in Pids : Records(p) /\ ~procs[p].threw =>
       Record(heap', p).lastSessionId = SessionId(p, procs[p].calls - 1)]_vars

\* C38: no firing ends with its callback's promise rejected.
C38_CallbackNeverRejects ==
  \A p \in Pids : procs[p].kind = "firing" => procs[p].result # "rejected"

\* C39: after schedule_recurring_task has answered with a failure, the task it
\* would have created is not in the backing file, not in the cached document,
\* and has no armed timer.
C39_FailureLeavesNoTrace ==
  \A p \in Pids :
    (procs[p].kind = "schedule" /\ procs[p].pc = "done" /\ procs[p].result = "error") =>
      /\ randomUUID(p) \notin DOMAIN file.doc
      /\ cache # 0 => randomUUID(p) \notin DOMAIN heap[cache]
      /\ ~Armed(randomUUID(p))

====
